---------------------------- MODULE Spec2Model ----------------------------
(***************************************************************************)
(* Model of api/ocr.py: the OCR request pipeline.                          *)
(*                                                                         *)
(*   - OCRHandler (BaseHTTPRequestHandler): do_OPTIONS, do_POST,           *)
(*     _process_image, _preprocess_image, _clean_text, _send_error         *)
(*   - handler(request): the serverless entry point                        *)
(*                                                                         *)
(* Strings are sequences of one-character strings.  Floating point         *)
(* numbers are exact rationals [n, d] in lowest terms.                     *)
(*                                                                         *)
(* Three specifications:                                                   *)
(*   Spec       a request is answered by one of the entry points           *)
(*   SpecImage  one image goes through the per-image pipeline              *)
(*   SpecClean  _clean_text is applied to a string, then to its own output *)
(***************************************************************************)
EXTENDS Integers, Sequences, FiniteSets, TLC

VARIABLES pc, request, wfile, response, image, result, text, cleaned

vars == <<pc, request, wfile, response, image, result, text, cleaned>>

(***************************************************************************)
(* Bounds of the model.                                                    *)
(***************************************************************************)
MaxLen == 5

MaxFiles == 2

MaxLines == 2

(***************************************************************************)
(* Characters.                                                             *)
(***************************************************************************)
Letters ==
    { "a", "b", "c", "d", "e", "f", "g", "h", "i", "j", "k", "l", "m",
      "n", "o", "p", "q", "r", "s", "t", "u", "v", "w", "x", "y", "z",
      "A", "B", "C", "D", "E", "F", "G", "H", "I", "J", "K", "L", "M",
      "N", "O", "P", "Q", "R", "S", "T", "U", "V", "W", "X", "Y", "Z" }

Whitespace == { " ", "\t", "\n", "\r", "\f" }

(***************************************************************************)
(* Python string operations used by the code.                              *)
(***************************************************************************)
RECURSIVE split_from(_, _, _)
split_from(s, cur, acc) ==
    IF s = <<>>
    THEN IF cur = <<>> THEN acc ELSE Append(acc, cur)
    ELSE IF Head(s) \in Whitespace
         THEN split_from(Tail(s), <<>>, IF cur = <<>> THEN acc ELSE Append(acc, cur))
         ELSE split_from(Tail(s), Append(cur, Head(s)), acc)

\* str.split(): the maximal runs of non-whitespace characters
split(s) == split_from(s, <<>>, <<>>)

RECURSIVE join(_, _)
\* sep.join(parts)
join(sep, parts) ==
    IF parts = <<>> THEN <<>>
    ELSE IF Len(parts) = 1 THEN parts[1]
    ELSE parts[1] \o sep \o join(sep, Tail(parts))

RECURSIVE lstrip(_)
lstrip(s) ==
    IF s # <<>> /\ Head(s) \in Whitespace THEN lstrip(Tail(s)) ELSE s

RECURSIVE rstrip(_)
rstrip(s) ==
    IF s # <<>> /\ s[Len(s)] \in Whitespace
    THEN rstrip(SubSeq(s, 1, Len(s) - 1)) ELSE s

\* str.strip()
strip(s) == rstrip(lstrip(s))

RECURSIVE replace(_, _, _)
\* str.replace(old, new) for a non-empty old: leftmost, non-overlapping
replace(s, old, new) ==
    IF Len(s) < Len(old) THEN s
    ELSE IF SubSeq(s, 1, Len(old)) = old
         THEN new \o replace(SubSeq(s, Len(old) + 1, Len(s)), old, new)
         ELSE <<Head(s)>> \o replace(Tail(s), old, new)

\* A plausible slip: the pattern loses its lookahead, (?<=[a-zA-Z])old
re_sub_no_lookahead(old, new, s) ==
    [i \in 1..Len(s) |->
        IF s[i] = old /\ i > 1 /\ s[i-1] \in Letters THEN new ELSE s[i]]

\* re.sub("(?<=[a-zA-Z])old(?=[a-zA-Z])", new, s): the lookarounds read the
\* subject string, so every match is decided on s itself
re_sub(old, new, s) ==
    [i \in 1..Len(s) |->
        IF /\ s[i] = old
           /\ i > 1 /\ s[i-1] \in Letters
           /\ i < Len(s) /\ s[i+1] \in Letters
        THEN new ELSE s[i]]

replacements == << <<"0", "O">>, <<"1", "l">> >>

RECURSIVE apply_replacements(_, _)
\* for old, new in replacements: text = re.sub(pattern, new, text)
apply_replacements(reps, s) ==
    IF reps = <<>> THEN s
    ELSE apply_replacements(Tail(reps), re_sub(reps[1][1], reps[1][2], s))

\* OCRHandler._clean_text
clean_text(s) ==
    IF s = <<>> THEN <<>>
    ELSE LET t1 == join(<<" ">>, split(s))
             t2 == apply_replacements(replacements, t1)
             t3 == replace(replace(t2, <<"-", "\n">>, <<>>), <<"\n">>, <<" ">>)
             t4 == join(<<" ">>, split(t3))
         IN  strip(t4)

(***************************************************************************)
(* Numbers: Python floats as exact rationals in lowest terms.              *)
(***************************************************************************)
RECURSIVE GCD(_, _)
GCD(a, b) == IF b = 0 THEN a ELSE GCD(b, a % b)

Rat(n, d) == LET g == GCD(n, d) IN [n |-> n \div g, d |-> d \div g]

Zero == Rat(0, 1)

RatAdd(x, y) == Rat(x.n * y.d + y.n * x.d, x.d * y.d)

RatMulInt(x, k) == Rat(x.n * k, x.d)

RatDivInt(x, k) == Rat(x.n, x.d * k)

RECURSIVE sum(_)
\* sum(list), left to right from 0
sum(xs) == IF xs = <<>> THEN Zero ELSE RatAdd(sum(SubSeq(xs, 1, Len(xs) - 1)), xs[Len(xs)])

(***************************************************************************)
(* Images.  An image file is described by what decoding, preprocessing     *)
(* and recognition do with its bytes.                                      *)
(***************************************************************************)
max_size == 2048

Max(a, b) == IF a >= b THEN a ELSE b

\* Image.open(...): the decoded image
open_image(data) == [mode |-> data.mode, size |-> data.size, enhanced |-> <<>>]

\* image.convert('RGB')
convert(img) == [img EXCEPT !.mode = "RGB"]

\* image.resize(tuple(int(dim * ratio) for dim in image.size), LANCZOS)
\* with ratio = max_size / max(image.size)
resize(img) ==
    LET longer == Max(img.size[1], img.size[2])
    IN  [img EXCEPT !.size = << (img.size[1] * max_size) \div longer,
                                (img.size[2] * max_size) \div longer >>]

\* ImageEnhance.<kind>(image).enhance(factor), factor in tenths
enhance(img, kind, factor) ==
    [img EXCEPT !.enhanced = Append(@, <<kind, factor>>)]

\* The preprocessing chain without its try/except; raises names the step
\* that throws when it is executed.  sharpen is FALSE for handler, which has
\* no sharpness step.
preprocess_steps(img, raises, sharpen) ==
    IF img.mode # "RGB" /\ raises = "convert"
    THEN [raised |-> TRUE, image |-> img]
    ELSE
    LET a == IF img.mode # "RGB" THEN convert(img) ELSE img
    IN  IF Max(a.size[1], a.size[2]) > max_size /\ raises = "resize"
        THEN [raised |-> TRUE, image |-> a]
        ELSE
        LET b == IF Max(a.size[1], a.size[2]) > max_size THEN resize(a) ELSE a
        IN  IF raises = "contrast"
            THEN [raised |-> TRUE, image |-> b]
            ELSE
            LET c == enhance(b, "Contrast", 12)
            IN  IF ~sharpen THEN [raised |-> FALSE, image |-> c]
                ELSE IF raises = "sharpness"
                     THEN [raised |-> TRUE, image |-> c]
                     ELSE [raised |-> FALSE, image |-> enhance(c, "Sharpness", 11)]

\* A plausible slip: _preprocess_image without its try/except
preprocess_image_uncaught(img, raises) == preprocess_steps(img, raises, TRUE)

\* OCRHandler._preprocess_image: a failing step is caught and the image as
\* it was before that step is returned; nothing is raised to the caller
preprocess_image(img, raises) ==
    [raised |-> FALSE, image |-> preprocess_steps(img, raises, TRUE).image]

RECURSIVE parse_lines(_, _, _)
\* for line in ocr_result[0]: keep the trimmed text and the confidence of
\* every well-formed line whose text is not blank
parse_lines(lines, text_parts, confidences) ==
    IF lines = <<>>
    THEN [text_parts |-> text_parts, confidences |-> confidences]
    ELSE LET line == Head(lines)
         IN  IF line.n >= 2 /\ line.text # <<>> /\ strip(line.text) # <<>>
             THEN parse_lines(Tail(lines),
                              Append(text_parts, strip(line.text)),
                              Append(confidences, line.conf))
             ELSE parse_lines(Tail(lines), text_parts, confidences)

\* if ocr_result and ocr_result[0]: ... (the parse of the engine's output)
parse_result(ocr_result) ==
    IF ocr_result # <<>> /\ ocr_result[1] # <<>>
    THEN parse_lines(ocr_result[1], <<>>, <<>>)
    ELSE [text_parts |-> <<>>, confidences |-> <<>>]

\* sum(confidences) / len(confidences) if confidences else 0
average(confidences) ==
    IF confidences # <<>>
    THEN RatDivInt(sum(confidences), Len(confidences))
    ELSE Zero

\* the record of a failed image
error_result(filename, message) ==
    [filename |-> filename, text |-> <<>>, confidence |-> Zero,
     error |-> message, character_count |-> 0, lines_detected |-> 0]

\* the record of a recognized image
image_result(filename, combined_text, parsed) ==
    [filename |-> filename, text |-> combined_text,
     confidence |-> RatMulInt(average(parsed.confidences), 100),
     character_count |-> Len(combined_text),
     lines_detected |-> Len(parsed.text_parts)]

\* OCRHandler._process_image
process_image(data, filename) ==
    IF data.decode = "raise"
    THEN error_result(filename, "cannot identify image file")
    ELSE LET pre == preprocess_image(open_image(data), data.pre_raises)
         IN  IF pre.raised
             THEN error_result(filename, "preprocessing failed")
             ELSE IF data.ocr.raises
                  THEN error_result(filename, "recognition failed")
                  ELSE LET parsed == parse_result(data.ocr.pages)
                       IN  image_result(filename,
                                        clean_text(join(<<" ">>, parsed.text_parts)),
                                        parsed)

\* file.filename or f"image_{i+1}", i counted from 0
filename_or_placeholder(filename, i) ==
    IF filename # "" THEN filename ELSE "image_" \o ToString(i + 1)

\* handler: the body of "for i, file in enumerate(files)", one ImageResult
handler_image(data, filename, i) ==
    IF data.decode = "raise"
    THEN error_result(filename_or_placeholder(filename, i), "cannot identify image file")
    ELSE LET pre == preprocess_steps(open_image(data), data.pre_raises, FALSE)
         IN  IF pre.raised
             THEN error_result(filename_or_placeholder(filename, i), "preprocessing failed")
             ELSE IF data.ocr.raises
                  THEN error_result(filename_or_placeholder(filename, i), "recognition failed")
                  ELSE LET parsed == parse_result(data.ocr.pages)
                       IN  image_result(filename_or_placeholder(filename, i),
                                        strip(join(<<" ">>, parsed.text_parts)),
                                        parsed)

NoRequest == [via |-> "none"]

NoImage == [decode |-> "none"]

(***************************************************************************)
(* Input domains.                                                          *)
(***************************************************************************)
LineTexts ==
    { <<>>, <<" ">>, <<"a", "0", "b">>, <<" ", "c", " ", " ", "d">>,
      <<"e", "-", "\n", "f">> }

LineConfs == { Rat(80, 100), Rat(95, 100) }

\* one detected line: n sub-elements (0: None, 1: geometry only, 2: geometry
\* and a (text, confidence) pair)
Lines ==
    [n : {0, 1}, text : {<<>>}, conf : {Zero}]
        \cup [n : {2}, text : LineTexts, conf : LineConfs]

\* the engine's result: None/[] (<<>>), [None] (<< <<>> >>) or [lines]
OcrResults ==
    { <<>>, << <<>> >> }
        \cup { <<p>> : p \in UNION { [1..k -> Lines] : k \in 1..MaxLines } }

OcrOutcomes ==
    { [raises |-> TRUE, pages |-> <<>>] }
        \cup [raises : {FALSE}, pages : OcrResults]

Sizes == { <<1024, 768>>, <<4096, 3000>> }

BadFile ==
    [decode |-> "raise", mode |-> "RGB", size |-> <<1024, 768>>,
     pre_raises |-> "none", ocr |-> [raises |-> TRUE, pages |-> <<>>]]

ImageData ==
    { BadFile }
        \cup [decode : {"ok"}, mode : {"RGB", "L"}, size : Sizes,
              pre_raises : {"none", "convert", "resize", "contrast", "sharpness"},
              ocr : OcrOutcomes]

(***************************************************************************)
(* SpecImage: one image through the per-image code of an entry point.      *)
(***************************************************************************)
InitImage ==
    /\ pc = "image"
    /\ request \in [via : {"OCRHandler", "handler"}, filename : {"", "a.png"}]
    /\ request.via = "OCRHandler" => request.filename # ""
    /\ image \in ImageData
    /\ result = <<>>
    /\ wfile = <<>>
    /\ response = <<>>
    /\ text = <<>>
    /\ cleaned = <<>>

\* result = self._process_image(image_data, field.filename, image_count)
ProcessImage ==
    /\ pc = "image"
    /\ request.via = "OCRHandler"
    /\ result = <<>>
    /\ result' = <<process_image(image, request.filename)>>
    /\ UNCHANGED <<pc, request, wfile, response, image, text, cleaned>>

\* one iteration of handler's loop over request.files.getlist('images')
HandlerImage ==
    /\ pc = "image"
    /\ request.via = "handler"
    /\ result = <<>>
    /\ result' = <<handler_image(image, request.filename, 0)>>
    /\ UNCHANGED <<pc, request, wfile, response, image, text, cleaned>>

NextImage == ProcessImage \/ HandlerImage

SpecImage == InitImage /\ [][NextImage]_vars

HasError(r) == "error" \in DOMAIN r

\* the preprocessing step named by pre_raises is executed, and so throws
PreprocessingRaises(data, sharpen) ==
    /\ data.decode = "ok"
    /\ preprocess_steps(open_image(data), data.pre_raises, sharpen).raised

\* C7 as stated: in OCRHandler a failure of decode, of any preprocessing step
\* or of the recognition call yields an error record with text "" and
\* confidence 0.
C7_EveryFailureIsAnErrorRecord ==
    (/\ pc = "image" /\ request.via = "OCRHandler" /\ result # <<>>
     /\ \/ image.decode = "raise"
        \/ PreprocessingRaises(image, TRUE)
        \/ image.ocr.raises)
        => /\ HasError(result[1])
           /\ result[1].text = <<>>
           /\ result[1].confidence = Zero

\* C7 amended: in OCRHandler the ImageResult carries an error field exactly
\* when the decode or the recognition call raises, and then text is "" and
\* confidence, character_count and lines_detected are 0; a failing
\* preprocessing step alone leaves no error field.
C7_DecodeOrRecognitionFailureIsAnErrorRecord ==
    (pc = "image" /\ request.via = "OCRHandler" /\ result # <<>>)
        => /\ HasError(result[1]) <=> (image.decode = "raise" \/ image.ocr.raises)
           /\ HasError(result[1]) =>
                 /\ result[1].text = <<>>
                 /\ result[1].confidence = Zero
                 /\ result[1].character_count = 0
                 /\ result[1].lines_detected = 0

\* C7 witness: a preprocessing step threw, recognition went on and produced
\* text, and the record has no error field.
C7_Witness ==
    /\ pc = "image" /\ request.via = "OCRHandler" /\ result # <<>>
    /\ PreprocessingRaises(image, TRUE)
    /\ ~HasError(result[1])
    /\ result[1].text # <<>>

\* the Text Normalizer's output over the space-joined, trimmed, non-empty
\* recognized lines
NormalizedText(data) ==
    clean_text(join(<<" ">>, parse_result(data.ocr.pages).text_parts))

\* C8: every ImageResult without an error field, from either entry point,
\* has text equal to the normalizer's output over the recognized lines and
\* character_count equal to its length.
C8_TextIsNormalized ==
    (pc = "image" /\ result # <<>> /\ ~HasError(result[1]))
        => /\ result[1].text = NormalizedText(image)
           /\ result[1].character_count = Len(NormalizedText(image))

(***************************************************************************)
(* Requests.  A request carries its method, its Content-Type and the       *)
(* multipart parts of its body in submission order; a part has the name of *)
(* its form field, its filename ("" when none) and its bytes.              *)
(***************************************************************************)
FieldNames ==
    { <<"i", "m", "a", "g", "e", "1">>,
      <<"i", "m", "a", "g", "e", "s">>,
      <<"p", "h", "o", "t", "o">> }

Multipart == "multipart/form-data; boundary=b"

GoodImage ==
    [decode |-> "ok", mode |-> "RGB", size |-> <<1024, 768>>, pre_raises |-> "none",
     ocr |-> [raises |-> FALSE,
              pages |-> << << [n |-> 2, text |-> <<"a", "0", "b">>, conf |-> Rat(80, 100)],
                              [n |-> 2, text |-> <<" ", "c", " ", " ", "d">>, conf |-> Rat(95, 100)] >> >>]]

BlankImage ==
    [decode |-> "ok", mode |-> "RGB", size |-> <<4096, 3000>>, pre_raises |-> "none",
     ocr |-> [raises |-> FALSE, pages |-> <<>>]]

BadOcr ==
    [decode |-> "ok", mode |-> "RGB", size |-> <<1024, 768>>, pre_raises |-> "none",
     ocr |-> [raises |-> TRUE, pages |-> <<>>]]

BadMode ==
    [decode |-> "ok", mode |-> "L", size |-> <<1024, 768>>, pre_raises |-> "convert",
     ocr |-> [raises |-> FALSE,
              pages |-> << << [n |-> 2, text |-> <<"e">>, conf |-> Rat(95, 100)] >> >>]]

\* the image files that requests carry
BatchImages == { GoodImage, BlankImage, BadFile, BadOcr, BadMode }

\* the filename of the i-th part, when it has one
PartFilename(i) == "f" \o ToString(i) \o ".png"

PartLists ==
    UNION { { ps \in [1..k -> [name : FieldNames,
                               filename : {""} \cup { PartFilename(i) : i \in 1..k },
                               data : BatchImages]] :
                \A i \in 1..k : ps[i].filename \in {"", PartFilename(i)} } :
            k \in 0..MaxFiles }

(***************************************************************************)
(* OCRHandler: the http.server entry point.  wfile is the byte stream      *)
(* written to the client, as the sequence of its parts.                    *)
(***************************************************************************)
\* self.send_response(code)
send_response(w, code) == Append(w, [kind |-> "status", code |-> code])

\* self.send_header(key, value)
send_header(w, key, value) ==
    Append(w, [kind |-> "header", key |-> key, value |-> value])

\* self.end_headers()
end_headers(w) == Append(w, [kind |-> "end_headers"])

\* self.wfile.write(json.dumps(data).encode())
write_json(w, data) == Append(w, [kind |-> "body", data |-> data])

\* OCRHandler._send_error
send_error(w, status, message) ==
    LET w1 == send_response(w, status)
        w2 == send_header(w1, "Access-Control-Allow-Origin", "*")
        w3 == send_header(w2, "Content-Type", "application/json")
        w4 == end_headers(w3)
    IN  write_json(w4, [success |-> FALSE, error |-> message])

\* field_name.startswith(prefix)
startswith(s, prefix) ==
    Len(s) >= Len(prefix) /\ SubSeq(s, 1, Len(prefix)) = prefix

\* cgi.FieldStorage.keys(): list(set(item.name for item in self.list)), in
\* the iteration order of a set of strings, which is any order
form_keys(parts) ==
    LET names == { parts[i].name : i \in DOMAIN parts }
    IN  { ks \in [1..Cardinality(names) -> names] :
            \A i, j \in DOMAIN ks : i # j => ks[i] # ks[j] }

\* cgi.FieldStorage.__getitem__: the parts of that name
form_getitem(parts, key) == SelectSeq(parts, LAMBDA p : p.name = key)

\* "\n\n".join([r["text"] for r in results]): a plausible slip, the filter
\* on r["text"].strip() is lost
combined_text_unfiltered(results) ==
    join(<<"\n", "\n">>, [i \in DOMAIN results |-> results[i].text])

\* "\n\n".join([r["text"] for r in results if r["text"].strip()])
combined_text_of(results) ==
    join(<<"\n", "\n">>,
         LET kept == SelectSeq(results, LAMBDA r : strip(r.text) # <<>>)
         IN  [i \in DOMAIN kept |-> kept[i].text])

\* A plausible slip: failed images are left out of the mean
average_confidence_skipping_failed(results) ==
    LET ok == SelectSeq(results, LAMBDA r : "error" \notin DOMAIN r)
    IN  IF ok = <<>> THEN Zero
        ELSE RatDivInt(sum([i \in DOMAIN ok |-> ok[i].confidence]), Len(ok))

\* do_POST: sum([r["confidence"] for r in results]) / len(results)
average_confidence_of(results) ==
    RatDivInt(sum([i \in DOMAIN results |-> results[i].confidence]), Len(results))

\* handler: sum([...]) / len(results) if results else 0
handler_average_confidence_of(results) ==
    IF results # <<>>
    THEN RatDivInt(sum([i \in DOMAIN results |-> results[i].confidence]), Len(results))
    ELSE Zero

\* do_POST: response_data
response_data(results) ==
    [success |-> TRUE, images |-> results,
     combined_text |-> combined_text_of(results),
     total_confidence |-> average_confidence_of(results),
     image_count |-> Len(results)]

\* handler: response_data
handler_response_data(results) ==
    [success |-> TRUE, images |-> results,
     combined_text |-> combined_text_of(results),
     total_confidence |-> handler_average_confidence_of(results),
     image_count |-> Len(results)]

RECURSIVE post_loop(_, _, _)
\* do_POST: "for field_name in form.keys()".  form[field_name] is the list
\* of parts when several share the name, and a list has no .filename: the
\* AttributeError leaves the loop for the outer except.
post_loop(parts, keys, results) ==
    IF keys = <<>>
    THEN [raised |-> FALSE, message |-> "", results |-> results]
    ELSE IF ~startswith(Head(keys), <<"i", "m", "a", "g", "e">>)
    THEN post_loop(parts, Tail(keys), results)
    ELSE LET field == form_getitem(parts, Head(keys))
         IN  IF Len(field) # 1
             THEN [raised |-> TRUE,
                   message |-> "'list' object has no attribute 'filename'",
                   results |-> results]
             ELSE IF field[1].filename # ""
             THEN post_loop(parts, Tail(keys),
                            Append(results,
                                   process_image(field[1].data, field[1].filename)))
             ELSE post_loop(parts, Tail(keys), results)

\* do_POST: the status line and headers it sends first
post_headers ==
    end_headers(
        send_header(
            send_header(send_response(<<>>, 200), "Access-Control-Allow-Origin", "*"),
            "Content-Type", "application/json"))

\* OCRHandler.do_OPTIONS
do_OPTIONS ==
    /\ pc = "received"
    /\ request.via = "OCRHandler"
    /\ request.method = "OPTIONS"
    /\ wfile' = end_headers(
                    send_header(
                        send_header(
                            send_header(send_response(<<>>, 200),
                                        "Access-Control-Allow-Origin", "*"),
                            "Access-Control-Allow-Methods", "POST, OPTIONS"),
                        "Access-Control-Allow-Headers", "Content-Type"))
    /\ pc' = "responded"
    /\ UNCHANGED <<request, response, image, result, text, cleaned>>

\* OCRHandler.do_POST
do_POST ==
    /\ pc = "received"
    /\ request.via = "OCRHandler"
    /\ request.method = "POST"
    /\ IF request.content_type # Multipart
       THEN /\ wfile' = send_error(post_headers, 400,
                                   "Content-Type must be multipart/form-data")
            /\ result' = <<>>
       ELSE \E keys \in form_keys(request.parts) :
               LET loop == post_loop(request.parts, keys, <<>>)
               IN  /\ result' = loop.results
                   /\ wfile' =
                        IF loop.raised
                        THEN send_error(post_headers, 500, loop.message)
                        ELSE IF loop.results = <<>>
                        THEN send_error(post_headers, 400,
                                        "No valid images found in request")
                        ELSE write_json(post_headers, response_data(loop.results))
    /\ pc' = "responded"
    /\ UNCHANGED <<request, response, image, text, cleaned>>

(***************************************************************************)
(* handler: the serverless entry point.  response is the returned dict.    *)
(***************************************************************************)
\* request.files.getlist('images')
getlist(parts, key) == SelectSeq(parts, LAMBDA p : p.name = key)

\* handler: "for i, file in enumerate(files)"
handler_loop(files) ==
    [i \in DOMAIN files |-> handler_image(files[i].data, files[i].filename, i - 1)]

\* handler(request)
handler ==
    /\ pc = "received"
    /\ request.via = "handler"
    /\ LET files == getlist(request.parts, <<"i", "m", "a", "g", "e", "s">>)
       IN  IF request.method = "OPTIONS"
           THEN /\ response' =
                     [statusCode |-> 200,
                      headers |-> { <<"Access-Control-Allow-Origin", "*">>,
                                    <<"Access-Control-Allow-Methods", "POST, OPTIONS">>,
                                    <<"Access-Control-Allow-Headers", "Content-Type">> },
                      body |-> <<>>]
                /\ result' = <<>>
           ELSE IF request.method # "POST"
           THEN /\ response' =
                     [statusCode |-> 405,
                      headers |-> { <<"Access-Control-Allow-Origin", "*">> },
                      body |-> [success |-> FALSE, error |-> "Method not allowed"]]
                /\ result' = <<>>
           ELSE IF files = <<>>
           THEN /\ response' =
                     [statusCode |-> 400,
                      headers |-> { <<"Access-Control-Allow-Origin", "*">> },
                      body |-> [success |-> FALSE, error |-> "No images provided"]]
                /\ result' = <<>>
           ELSE /\ response' =
                     [statusCode |-> 200,
                      headers |-> { <<"Access-Control-Allow-Origin", "*">>,
                                    <<"Content-Type", "application/json">> },
                      body |-> handler_response_data(handler_loop(files))]
                /\ result' = handler_loop(files)
    /\ pc' = "responded"
    /\ UNCHANGED <<request, wfile, image, text, cleaned>>

Requests ==
    [via : {"OCRHandler", "handler"}, method : {"POST"},
     content_type : {Multipart}, parts : PartLists]
        \cup [via : {"OCRHandler", "handler"}, method : {"POST"},
              content_type : {"", "application/json"}, parts : {<<>>}]
        \cup [via : {"OCRHandler"}, method : {"OPTIONS"},
              content_type : {""}, parts : {<<>>}]
        \cup [via : {"handler"}, method : {"OPTIONS", "GET"},
              content_type : {""}, parts : {<<>>}]

Init ==
    /\ pc = "received"
    /\ request \in Requests
    /\ wfile = <<>>
    /\ response = <<>>
    /\ result = <<>>
    /\ image = NoImage
    /\ text = <<>>
    /\ cleaned = <<>>

Next == do_OPTIONS \/ do_POST \/ handler

Spec == Init /\ [][Next]_vars

(***************************************************************************)
(* What a client sees of a response.                                       *)
(***************************************************************************)
Responded == pc = "responded"

IsPost == request.method = "POST"

StatusLines == SelectSeq(wfile, LAMBDA e : e.kind = "status")

Bodies == SelectSeq(wfile, LAMBDA e : e.kind = "body")

\* the HTTP status of the response: the first status line on the wire, or
\* the statusCode of the returned dict
HttpStatus ==
    IF request.via = "OCRHandler" THEN StatusLines[1].code ELSE response.statusCode

\* the JSON documents of the response
Payloads ==
    IF request.via = "OCRHandler"
    THEN [i \in DOMAIN Bodies |-> Bodies[i].data]
    ELSE IF IsPost THEN <<response.body>> ELSE <<>>

HasBatchResult == \E i \in DOMAIN Payloads : Payloads[i].success

BatchResult == Payloads[CHOOSE i \in DOMAIN Payloads : Payloads[i].success]

IsImageField(name) ==
    IF request.via = "OCRHandler"
    THEN startswith(name, <<"i", "m", "a", "g", "e">>)
    ELSE name = <<"i", "m", "a", "g", "e", "s">>

\* the image files of the request with a non-empty filename, in the order
\* they were submitted
NamedFiles ==
    SelectSeq(request.parts, LAMBDA p : IsImageField(p.name) /\ p.filename # "")

\* the image files the entry point is given: do_POST takes those with a
\* filename, handler every file of the field 'images'
Submitted ==
    IF request.via = "OCRHandler" THEN NamedFiles
    ELSE SelectSeq(request.parts, LAMBDA p : IsImageField(p.name))

DecodeOrRecognitionRaises(data) == data.decode = "raise" \/ data.ocr.raises

\* no preprocessing step throws for any submitted image
PreprocessingSucceeds ==
    \A i \in DOMAIN Submitted : Submitted[i].data.pre_raises = "none"

\* C1: for a batch of N >= 1 submitted images the response is a success
\* BatchResult with image_count = N, one entry per image in submission
\* order; exactly the images whose decode or recognition raises carry an
\* error field, with text "", confidence 0, character_count 0 and
\* lines_detected 0.  (Stated for batches in which the only failures are
\* decode and recognition failures.)
C1_PerImageIsolation ==
    (Responded /\ IsPost /\ Len(Submitted) >= 1 /\ PreprocessingSucceeds)
        => /\ HttpStatus = 200
           /\ HasBatchResult
           /\ BatchResult.image_count = Len(Submitted)
           /\ Len(BatchResult.images) = Len(Submitted)
           /\ \A i \in DOMAIN Submitted :
                LET r == BatchResult.images[i]
                IN  /\ Submitted[i].filename # "" => r.filename = Submitted[i].filename
                    /\ HasError(r) <=> DecodeOrRecognitionRaises(Submitted[i].data)
                    /\ HasError(r) =>
                          /\ r.text = <<>>
                          /\ r.confidence = Zero
                          /\ r.character_count = 0
                          /\ r.lines_detected = 0

\* C2: a multipart POST from which no image file is collected is answered
\* with HTTP status 400 and a {"success": false, "error": ...} body, and no
\* success payload is written.
C2_NoImagesIs400 ==
    (Responded /\ IsPost /\ request.content_type = Multipart /\ Submitted = <<>>)
        => /\ HttpStatus = 400
           /\ ~HasBatchResult
           /\ Len(Payloads) = 1
           /\ ~Payloads[1].success

RECURSIVE DenProduct(_)
DenProduct(rs) == IF rs = <<>> THEN 1 ELSE Head(rs).confidence.d * DenProduct(Tail(rs))

RECURSIVE ScaledSum(_, _)
\* the sum of the confidences of rs, in units of 1/den
ScaledSum(rs, den) ==
    IF rs = <<>> THEN 0
    ELSE Head(rs).confidence.n * (den \div Head(rs).confidence.d) + ScaledSum(Tail(rs), den)

\* C3: total_confidence is the arithmetic mean of all images[].confidence,
\* failed images counting as 0 in the sum and 1 in the divisor; a
\* BatchResult never has an empty images list.
C3_TotalIsMean ==
    (Responded /\ HasBatchResult)
        => LET b == BatchResult
               den == DenProduct(b.images)
           IN  /\ b.images # <<>>
               /\ b.total_confidence.n * den * Len(b.images)
                    = b.total_confidence.d * ScaledSum(b.images, den)

\* C3 witness: a batch with a failed image (confidence 0) and a recognized
\* one, whose mean is lower than the recognized image's confidence.
C3_Witness ==
    /\ Responded /\ HasBatchResult
    /\ \E i, j \in DOMAIN BatchResult.images :
          /\ HasError(BatchResult.images[i])
          /\ BatchResult.images[j].confidence # Zero
          /\ BatchResult.total_confidence # BatchResult.images[j].confidence
          /\ BatchResult.total_confidence # Zero

IsBlank(s) == \A i \in DOMAIN s : s[i] \in Whitespace

RECURSIVE Accumulate(_, _)
\* the non-blank texts of rs appended to acc, a blank line between two
Accumulate(rs, acc) ==
    IF rs = <<>> THEN acc
    ELSE IF IsBlank(Head(rs).text) THEN Accumulate(Tail(rs), acc)
    ELSE IF acc = <<>> THEN Accumulate(Tail(rs), Head(rs).text)
    ELSE Accumulate(Tail(rs), acc \o <<"\n", "\n">> \o Head(rs).text)

\* C4: combined_text is the non-blank texts of images[], in order, joined by
\* two newlines; a blank text (every failed image) adds neither a segment
\* nor a separator, and combined_text is empty when every text is blank.
C4_CombinedText ==
    (Responded /\ HasBatchResult)
        => /\ BatchResult.combined_text = Accumulate(BatchResult.images, <<>>)
           /\ (\A i \in DOMAIN BatchResult.images : IsBlank(BatchResult.images[i].text))
                 => BatchResult.combined_text = <<>>

\* C4 witness: a batch with an empty text before a non-empty one, whose
\* combined_text is that one text.
C4_Witness ==
    /\ Responded /\ HasBatchResult
    /\ Len(BatchResult.images) = 2
    /\ BatchResult.images[1].text = <<>>
    /\ BatchResult.images[2].text # <<>>
    /\ BatchResult.combined_text = BatchResult.images[2].text

\* C5: for a request with at least one image file, image_count = len(images)
\* = the number of files submitted with a non-empty filename.
C5_CountsNamedFiles ==
    (Responded /\ IsPost /\ Len(NamedFiles) >= 1)
        => /\ HasBatchResult
           /\ BatchResult.image_count = Len(BatchResult.images)
           /\ BatchResult.image_count = Len(NamedFiles)

EndsOfHeaders == { i \in DOMAIN wfile : wfile[i].kind = "end_headers" }

\* C10: do_POST emits exactly one status line and one header block, before
\* any body bytes, and the status matches the body: 200 only with a success
\* payload, 400 or 500 only with a {"success": false} payload.
C10_OneStatusLine ==
    (Responded /\ IsPost /\ request.via = "OCRHandler")
        => /\ Len(StatusLines) = 1
           /\ Cardinality(EndsOfHeaders) = 1
           /\ \A i \in DOMAIN wfile :
                wfile[i].kind = "body" => \A j \in EndsOfHeaders : j < i
           /\ Len(Bodies) = 1
           /\ StatusLines[1].code \in {200, 400, 500}
           /\ StatusLines[1].code = 200 <=> Bodies[1].data.success

(***************************************************************************)
(* SpecClean: _clean_text on a bounded string, then on its own output.     *)
(***************************************************************************)
Alphabet == { "a", "0", "1", "-", " ", "\t", "\n" }

Texts == UNION { [1..n -> Alphabet] : n \in 0..MaxLen }

InitClean ==
    /\ pc = "clean"
    /\ text \in Texts
    /\ cleaned = <<>>
    /\ request = NoRequest
    /\ wfile = <<>>
    /\ response = <<>>
    /\ image = NoImage
    /\ result = <<>>

\* the normalizer runs on the raw text
CleanText ==
    /\ pc = "clean"
    /\ cleaned = <<>>
    /\ cleaned' = <<clean_text(text)>>
    /\ UNCHANGED <<pc, request, wfile, response, image, result, text>>

\* the normalizer runs on an already normalized text
CleanAgain ==
    /\ pc = "clean"
    /\ Len(cleaned) = 1
    /\ cleaned' = Append(cleaned, clean_text(cleaned[1]))
    /\ UNCHANGED <<pc, request, wfile, response, image, result, text>>

NextClean == CleanText \/ CleanAgain

SpecClean == InitClean /\ [][NextClean]_vars

\* C6: text normalization is idempotent: normalizing an already normalized
\* string returns it unchanged.
C6_Idempotent == Len(cleaned) = 2 => cleaned[2] = cleaned[1]

\* C6 witness: a second pass ran on a text in which the first pass made a
\* substitution.
C6_Witness ==
    /\ Len(cleaned) = 2
    /\ \E i \in 1..Len(cleaned[1]) : cleaned[1][i] \in {"O", "l"}

HyphenBreak == <<"-", "\n">>

\* the input is x + "-\n" + y for two non-empty words x, y of letters
IsBrokenWord(s) ==
    \E i \in 2..(Len(s) - 2) :
        /\ SubSeq(s, i, i + 1) = HyphenBreak
        /\ \A j \in (1..Len(s)) \ {i, i + 1} : s[j] \in Letters

\* C9: a hyphen immediately followed by a line break between two word parts
\* is removed, so the output is the parts joined (x + "-\n" + y gives xy).
C9_HyphenRepaired ==
    (Len(cleaned) >= 1 /\ IsBrokenWord(text))
        => cleaned[1] = replace(text, HyphenBreak, <<>>)

=============================================================================
